---- MODULE Spec2Model ----
(***************************************************************************)
(* gafpack: projection of a GAF alignment file onto the nodes of a GFA     *)
(* graph (src/src/main.rs).  The model follows main(): the graph is        *)
(* loaded, the alignment file is read line by line (twice with             *)
(* --weight-queries), every line goes through for_each_step, whose node    *)
(* callback adds to the f64 coverage vector, and the vector is printed     *)
(* once the last line has been processed.  A panic (unwrap, assert!,       *)
(* index out of bounds, checked arithmetic) ends the process.              *)
(*                                                                         *)
(* usize is modelled at UsizeBits bits; f64 is modelled bit-exactly for    *)
(* the non-negative finite values the program produces: a value is         *)
(* sig * 2^(exp - (Len(sig) - 1)), sig the significand's bits (most        *)
(* significant first, trailing zeros dropped), rounded to nearest-even at  *)
(* F64_MANTISSA_DIGITS bits.                                               *)
(***************************************************************************)
EXTENDS Integers, Sequences, FiniteSets, TLC

\* ------------------------------------------------------------- bounds
MaxLines == 2
MaxCopies == 6
MaxWalk == 3
MaxNodeLen == 2
MaxPos == 3
UsizeBits == 8

\* ------------------------------------------------------ usize and f64
RECURSIVE Pow2(_)
Pow2(n) == IF n = 0 THEN 1 ELSE 2 * Pow2(n - 1)

UsizeModulus == Pow2(UsizeBits)

UsizeMax == UsizeModulus - 1

F64_MANTISSA_DIGITS == 53

Zeros(n) == [i \in 1..n |-> 0]

RECURSIVE BitsOfNat(_)
BitsOfNat(n) == IF n = 0 THEN <<>> ELSE Append(BitsOfNat(n \div 2), n % 2)

RECURSIVE NatOfBits(_)
NatOfBits(bits) ==
    IF bits = <<>> THEN 0
    ELSE 2 * NatOfBits(SubSeq(bits, 1, Len(bits) - 1)) + bits[Len(bits)]

LastIndex(bits, b) ==
    LET at == {i \in 1..Len(bits) : bits[i] = b}
    IN  IF at = {} THEN 0 ELSE CHOOSE i \in at : \A j \in at : j <= i

FirstIndex(bits, b) ==
    LET at == {i \in 1..Len(bits) : bits[i] = b}
    IN  IF at = {} THEN 0 ELSE CHOOSE i \in at : \A j \in at : i <= j

TrimZeros(bits) == SubSeq(bits, 1, LastIndex(bits, 1))

IncBits(bits) ==
    LET j == LastIndex(bits, 0)
    IN  IF j = 0 THEN <<1>> \o Zeros(Len(bits))
        ELSE [i \in 1..Len(bits) |-> IF i < j THEN bits[i] ELSE IF i = j THEN 1 ELSE 0]

F64Zero == [exp |-> 0, sig |-> <<>>]

F64Round(exp, bits, sticky) ==
    IF Len(bits) <= F64_MANTISSA_DIGITS
    THEN [exp |-> exp, sig |-> TrimZeros(bits)]
    ELSE LET keep  == SubSeq(bits, 1, F64_MANTISSA_DIGITS)
             guard == bits[F64_MANTISSA_DIGITS + 1]
             rest  == \E i \in (F64_MANTISSA_DIGITS + 2)..Len(bits) : bits[i] = 1
             up    == guard = 1 /\ (rest \/ sticky \/ keep[F64_MANTISSA_DIGITS] = 1)
             inc   == IncBits(keep)
         IN  IF ~up THEN [exp |-> exp, sig |-> TrimZeros(keep)]
             ELSE IF Len(inc) > F64_MANTISSA_DIGITS
                  THEN [exp |-> exp + 1, sig |-> <<1>>]
                  ELSE [exp |-> exp, sig |-> TrimZeros(inc)]

F64FromUsize(n) ==
    IF n = 0 THEN F64Zero
    ELSE LET b == BitsOfNat(n) IN F64Round(Len(b) - 1, b, FALSE)

F64ToUsize(a) ==
    IF a.sig = <<>> THEN 0 ELSE NatOfBits(a.sig \o Zeros(a.exp - (Len(a.sig) - 1)))

JoinBits(high, low) == [bits |-> high.bits \o low.bits, carry |-> high.carry]

RECURSIVE AddBits(_, _, _)
AddBits(x, y, carry) ==
    LET n == Len(x)
        m == n \div 2
    IN  IF n = 0 THEN [bits |-> <<>>, carry |-> carry]
        ELSE IF n = 1
        THEN [bits |-> <<(x[1] + y[1] + carry) % 2>>, carry |-> (x[1] + y[1] + carry) \div 2]
        ELSE LET low == AddBits(SubSeq(x, m + 1, n), SubSeq(y, m + 1, n), carry)
             IN  IF low.carry = 1
                 THEN JoinBits(AddBits(SubSeq(x, 1, m), SubSeq(y, 1, m), 1), low)
                 ELSE JoinBits(AddBits(SubSeq(x, 1, m), SubSeq(y, 1, m), 0), low)

F64Add(a, b) ==
    IF a.sig = <<>> THEN b
    ELSE IF b.sig = <<>> THEN a
    ELSE LET hi  == IF a.exp >= b.exp THEN a.exp ELSE b.exp
             alo == a.exp - (Len(a.sig) - 1)
             blo == b.exp - (Len(b.sig) - 1)
             lo  == IF alo <= blo THEN alo ELSE blo
             xa  == Zeros(hi - a.exp) \o a.sig \o Zeros(alo - lo)
             xb  == Zeros(hi - b.exp) \o b.sig \o Zeros(blo - lo)
             sum == AddBits(xa, xb, 0)
         IN  IF sum.carry = 1
             THEN F64Round(hi + 1, <<1>> \o sum.bits, FALSE)
             ELSE F64Round(hi, sum.bits, FALSE)

RECURSIVE DivBits(_, _, _)
DivBits(bits, c, rem) ==
    LET n == Len(bits)
        m == n \div 2
    IN  IF n = 0 THEN [q |-> <<>>, rem |-> rem]
        ELSE IF n = 1
        THEN IF 2 * rem + bits[1] >= c
             THEN [q |-> <<1>>, rem |-> 2 * rem + bits[1] - c]
             ELSE [q |-> <<0>>, rem |-> 2 * rem + bits[1]]
        ELSE LET high == DivBits(SubSeq(bits, 1, m), c, rem)
             IN  IF high.rem = 0
                 THEN LET low == DivBits(SubSeq(bits, m + 1, n), c, 0)
                      IN  [q |-> high.q \o low.q, rem |-> low.rem]
                 ELSE LET low == DivBits(SubSeq(bits, m + 1, n), c, high.rem)
                      IN  [q |-> high.q \o low.q, rem |-> low.rem]

F64Div(a, b) ==
    IF a.sig = <<>> THEN F64Zero
    ELSE LET c     == F64ToUsize(b)
             extra == F64_MANTISSA_DIGITS + 1 + Len(b.sig) + b.exp
             d     == DivBits(a.sig \o Zeros(extra), c, 0)
             first == FirstIndex(d.q, 1)
         IN  IF c = 1 THEN a
             ELSE F64Round(a.exp - (first - 1), SubSeq(d.q, first, Len(d.q)), d.rem # 0)

\* str::parse::<usize>: the decimal strings of 0..UsizeMax parse, nothing
\* else does (-1: Err)
DecimalStrings == {ToString(n) : n \in 0..UsizeMax}

ParseTable == [s \in DecimalStrings |-> CHOOSE n \in 0..UsizeMax : ToString(n) = s]

parse_usize(s) == IF s \in DecimalStrings THEN ParseTable[s] ELSE -1

\* ---------------------------------------------------------- the inputs
\* A GFA segment as parse_gfa keeps it; only the sequence's length is read.
Segment(id, len) == [id |-> id, len |-> len]

\* The graphs: node 1 alone, node 2 alone, or both, sorted by id as parse_gfa
\* leaves them; a node the graph does not have is absent from it.
Graphs ==
    {<<Segment(n, a)>> : n \in {1, 2}, a \in 1..MaxNodeLen}
    \cup {<<Segment(1, a), Segment(2, b)>> : a, b \in 1..MaxNodeLen}

\* A path field is the literal `*` or a string of [<>]token steps.
StarPath == << <<"", "*">> >>

TokenWalks(marker) ==
    UNION {{[i \in 1..n |-> <<marker, t[i]>>] : t \in [1..n -> {"1", "2"}]} : n \in 1..MaxWalk}

MalformedPaths == {<< <<">", "x">> >>, << <<">", "1">>, <<">", "x">> >>}

Paths == {StarPath, <<>>} \cup TokenWalks(">") \cup TokenWalks("<") \cup MalformedPaths

IntervalFields == {ToString(n) : n \in 0..MaxPos} \cup {"x"}

\* An alignment line: nf tab-separated fields, of which the program reads
\* fields 0, 2, 3, 5 (path), 7 and 8; a field past nf does not exist.
Line(nf, f0, f2, f3, path, f7, f8) ==
    [nf |-> nf, f0 |-> f0, f2 |-> f2, f3 |-> f3, path |-> path, f7 |-> f7, f8 |-> f8]

FullLines == {Line(9, "q", "A", "0", p, s, e) : p \in Paths, s \in IntervalFields, e \in IntervalFields}

ShortLines ==
    { Line(3, "q", "A", "", <<>>, "", ""),
      Line(5, "q", "A", "0", <<>>, "", ""),
      Line(6, "q", "A", "0", StarPath, "", ""),
      Line(6, "q", "A", "0", << <<">", "1">> >>, "", "") }

AllLines == FullLines \cup ShortLines

\* The lines of the multi-line files: one per outcome of a line (credited,
\* skipped, each kind of panic), and a second query key.
SampleLines ==
    { Line(9, "q", "A", "0", << <<">", "1">> >>, "0", "1"),
      Line(9, "r", "A", "0", << <<">", "1">> >>, "0", "1"),
      Line(9, "q", "A", "0", << <<">", "1">>, <<">", "2">> >>, "0", "2"),
      Line(9, "q", "A", "0", StarPath, "x", "x"),
      Line(9, "q", "A", "0", << <<">", "x">> >>, "0", "1"),
      Line(9, "q", "A", "0", << <<">", "1">> >>, "x", "1"),
      Line(9, "q", "A", "0", << <<">", "1">> >>, ToString(MaxPos), ToString(MaxPos)) }

\* The alignment files: every one-line file, every file of up to MaxLines
\* sample lines, and up to MaxCopies copies of one sample line.
GafFiles ==
    {<<l>> : l \in AllLines}
    \cup UNION {[1..n -> SampleLines] : n \in 0..MaxLines}
    \cup {[i \in 1..k |-> l] : k \in 1..MaxCopies, l \in SampleLines}

GafPath == "reads.gaf"

\* --------------------------------------------------------- the program
VARIABLES
    weight_queries,    \* args.weight_queries
    overflow_checks,   \* the build profile: usize arithmetic panics (debug) or wraps (release)
    segments,          \* parse_gfa's result
    gaf,               \* the lines of the alignment file
    pc,                \* "count": first pass, "cover": coverage pass, "exit", "abort"
    line_no,           \* lines of the current pass handed to the callback
    query_counts,      \* main's query_counts
    coverage,          \* main's coverage
    calls,             \* the node callbacks for_each_step made on the last line
    panic,             \* the panic that ended the process ("": none)
    stdout             \* what was printed

vars ==
    <<weight_queries, overflow_checks, segments, gaf, pc, line_no, query_counts,
      coverage, calls, panic, stdout>>

NoOutput == [layout |-> "none", labels |-> <<>>, values |-> <<>>]

\* segment_id_to_index.get(&node_id): the index, 0 for None
segment_id_to_index(node_id) ==
    LET at == {i \in DOMAIN segments : segments[i].id = node_id}
    IN  IF at = {} THEN 0 ELSE CHOOSE i \in at : \A j \in at : j <= i

\* the get_node_len closure of main
get_node_len(node_id) ==
    LET idx == segment_id_to_index(node_id)
    IN  IF idx = 0 THEN 0 ELSE segments[idx].len

Completed(cs) == [panic |-> "", calls |-> cs]

Panicked(msg, cs) == [panic |-> msg, calls |-> cs]

Call(node_id, len) == [fn |-> "callback", node_id |-> node_id, len |-> len]

\* the first step without its assertion: the subtraction wraps
first_step_unchecked(len, target_start) ==
    [ok |-> TRUE, len |-> (len - target_start + UsizeModulus) % UsizeModulus]

\* if i == 0 { assert!(len >= target_start); len -= target_start; }
first_step(len, target_start) ==
    IF len >= target_start
    THEN [ok |-> TRUE, len |-> len - target_start]
    ELSE [ok |-> FALSE, len |-> len]

\* if i == fields_len - 1 { assert!(target_len >= seen); len = target_len - seen; }
last_step(target_len, seen) ==
    IF target_len >= seen
    THEN [ok |-> TRUE, len |-> target_len - seen]
    ELSE [ok |-> FALSE, len |-> 0]

\* seen += len
add_seen(seen, len) ==
    IF seen + len <= UsizeMax THEN [ok |-> TRUE, seen |-> seen + len]
    ELSE [ok |-> ~overflow_checks, seen |-> (seen + len) % UsizeModulus]

\* for (i, j) in fields { ... }: i counts from 0, fields are the parsed tokens
RECURSIVE walk_loop(_, _, _, _, _, _)
walk_loop(fields, i, target_start, target_len, seen, cs) ==
    IF i = Len(fields) THEN Completed(cs)
    ELSE LET j     == fields[i + 1]
             first == IF i = 0 THEN first_step(get_node_len(j), target_start)
                      ELSE [ok |-> TRUE, len |-> get_node_len(j)]
             last  == IF i = Len(fields) - 1 THEN last_step(target_len, seen)
                      ELSE [ok |-> TRUE, len |-> first.len]
             sum   == add_seen(seen, last.len)
         IN  IF ~first.ok THEN Panicked("assertion failed: len >= target_start", cs)
             ELSE IF ~last.ok THEN Panicked("assertion failed: target_len >= seen", cs)
             ELSE IF ~sum.ok THEN Panicked("attempt to add with overflow", cs)
             ELSE walk_loop(fields, i + 1, target_start, target_len, sum.seen,
                            Append(cs, Call(j, last.len)))

\* the body of `if walk != "*"`
aligned_steps(line) ==
    LET target_start == parse_usize(line.f7)
        target_end   == parse_usize(line.f8)
        target_len   == (target_end - target_start + UsizeModulus) % UsizeModulus
        fields       == [i \in DOMAIN line.path |-> parse_usize(line.path[i][2])]
    IN  IF line.nf < 8 \/ target_start = -1
        THEN Panicked("target_start: unwrap on None or Err", <<>>)
        ELSE IF line.nf < 9 \/ target_end = -1
        THEN Panicked("target_end: unwrap on None or Err", <<>>)
        ELSE IF target_end < target_start /\ overflow_checks
        THEN Panicked("attempt to subtract with overflow", <<>>)
        ELSE IF \E i \in DOMAIN fields : fields[i] = -1
        THEN Panicked("walk token: unwrap on Err", <<>>)
        ELSE walk_loop(fields, 0, target_start, target_len, 0, <<>>)

\* for_each_step without the test for `*`
for_each_step_unconditional(line) ==
    IF line.nf < 6 THEN Panicked("walk: unwrap on None", <<>>)
    ELSE aligned_steps(line)

for_each_step(line) ==
    IF line.nf < 6 THEN Panicked("walk: unwrap on None", <<>>)
    ELSE IF line.path = StarPath THEN Completed(<<>>)
    ELSE aligned_steps(line)

\* format!("{}:{}:{}", fields[0], fields[2], fields[3])
query_key(line) == line.f0 \o ":" \o line.f2 \o ":" \o line.f3

\* *query_counts.entry(query_key).or_insert(0) += 1
count_entry(counts, key) ==
    [k \in DOMAIN counts \cup {key} |->
        IF k \in DOMAIN counts THEN counts[k] + (IF k = key THEN 1 ELSE 0) ELSE 1]

\* the count of the lines read so far in the second pass, this one included
query_count_running(key) ==
    Cardinality({i \in 1..(line_no + 1) : gaf[i].nf >= 4 /\ query_key(gaf[i]) = key})

\* query_counts.get(&query_key).unwrap_or(&1)
query_count(key) == IF key \in DOMAIN query_counts THEN query_counts[key] ELSE 1

\* the node callbacks of main: an id the graph does not have is dropped
callback_weighted(cov, c, count) ==
    LET idx == segment_id_to_index(c.node_id)
    IN  IF idx = 0 THEN cov
        ELSE [cov EXCEPT ![idx] = F64Add(@, F64Div(F64FromUsize(c.len), F64FromUsize(count)))]

callback_unweighted(cov, c) ==
    LET idx == segment_id_to_index(c.node_id)
    IN  IF idx = 0 THEN cov
        ELSE [cov EXCEPT ![idx] = F64Add(@, F64FromUsize(c.len))]

RECURSIVE weighted_calls(_, _, _)
weighted_calls(cov, cs, count) ==
    IF cs = <<>> THEN cov
    ELSE weighted_calls(callback_weighted(cov, Head(cs), count), Tail(cs), count)

RECURSIVE unweighted_calls(_, _)
unweighted_calls(cov, cs) ==
    IF cs = <<>> THEN cov
    ELSE unweighted_calls(callback_unweighted(cov, Head(cs)), Tail(cs))

\* a process that goes on to the next line whatever happened
pc_after_recovering(msg) == "cover"

\* a panic in the line callback unwinds main: the process ends
pc_after(msg) == IF msg = "" THEN "cover" ELSE "abort"

Init ==
    /\ weight_queries \in BOOLEAN
    /\ overflow_checks \in BOOLEAN
    /\ segments \in Graphs
    /\ gaf \in GafFiles
    /\ pc = IF weight_queries THEN "count" ELSE "cover"
    /\ line_no = 0
    /\ query_counts = [k \in {} |-> 0]
    /\ coverage = [i \in DOMAIN segments |-> F64Zero]
    /\ calls = <<>>
    /\ panic = ""
    /\ stdout = NoOutput

\* first pass, one line
count_line ==
    /\ pc = "count"
    /\ line_no < Len(gaf)
    /\ query_counts' =
          IF gaf[line_no + 1].nf >= 4
          THEN count_entry(query_counts, query_key(gaf[line_no + 1]))
          ELSE query_counts
    /\ line_no' = line_no + 1
    /\ UNCHANGED <<weight_queries, overflow_checks, segments, gaf, pc, coverage, calls,
                   panic, stdout>>

\* the first pass reached the end of the file: the second pass opens it again
count_eof ==
    /\ pc = "count"
    /\ line_no = Len(gaf)
    /\ pc' = "cover"
    /\ line_no' = 0
    /\ UNCHANGED <<weight_queries, overflow_checks, segments, gaf, query_counts, coverage,
                   calls, panic, stdout>>

\* second pass with --weight-queries, one line
cover_line_weighted ==
    /\ pc = "cover"
    /\ weight_queries
    /\ line_no < Len(gaf)
    /\ LET l == gaf[line_no + 1]
           r == IF l.nf < 4 THEN Panicked("fields: index out of bounds", <<>>)
                ELSE for_each_step(l)
       IN  /\ coverage' = IF l.nf < 4 THEN coverage
                          ELSE weighted_calls(coverage, r.calls, query_count(query_key(l)))
           /\ calls' = r.calls
           /\ panic' = r.panic
           /\ pc' = pc_after(r.panic)
    /\ line_no' = line_no + 1
    /\ UNCHANGED <<weight_queries, overflow_checks, segments, gaf, query_counts, stdout>>

\* the single pass without weighting, one line
cover_line_unweighted ==
    /\ pc = "cover"
    /\ ~weight_queries
    /\ line_no < Len(gaf)
    /\ LET r == for_each_step(gaf[line_no + 1])
       IN  /\ coverage' = unweighted_calls(coverage, r.calls)
           /\ calls' = r.calls
           /\ panic' = r.panic
           /\ pc' = pc_after(r.panic)
    /\ line_no' = line_no + 1
    /\ UNCHANGED <<weight_queries, overflow_checks, segments, gaf, query_counts, stdout>>

\* v, or v / segments[i].sequence.len() as f64 with --len-scale
scaled(len_scale) ==
    [i \in DOMAIN coverage |->
        IF len_scale THEN F64Div(coverage[i], F64FromUsize(segments[i].len)) ELSE coverage[i]]

\* the file is read: the coverage vector is printed as a column or as a table
print_coverage ==
    /\ pc = "cover"
    /\ line_no = Len(gaf)
    /\ \E len_scale \in BOOLEAN, coverage_column \in BOOLEAN :
          stdout' =
             IF coverage_column
             THEN [layout |-> "column",
                   labels |-> <<"##sample: " \o GafPath, "#coverage">>,
                   values |-> scaled(len_scale)]
             ELSE [layout |-> "table",
                   labels |-> <<"#sample">>
                              \o [i \in DOMAIN segments |-> "node." \o ToString(segments[i].id)]
                              \o <<GafPath>>,
                   values |-> scaled(len_scale)]
    /\ pc' = "exit"
    /\ UNCHANGED <<weight_queries, overflow_checks, segments, gaf, line_no, query_counts,
                   coverage, calls, panic>>

Next ==
    \/ count_line
    \/ count_eof
    \/ cover_line_weighted
    \/ cover_line_unweighted
    \/ print_coverage

Spec == Init /\ [][Next]_vars

\* -------------------------------------------------------- properties
IsUsize(s) == s \in DecimalStrings

\* a line for_each_step walks: nine fields, a path other than `*`, integers
\* in the interval fields and in every token of the path
WellFormed(l) ==
    /\ l.nf = 9
    /\ l.path # StarPath
    /\ IsUsize(l.f7)
    /\ IsUsize(l.f8)
    /\ \A i \in DOMAIN l.path : IsUsize(l.path[i][2])

NodeAt(l, i) == parse_usize(l.path[i][2])

InGraph(node_id) == \E i \in DOMAIN segments : segments[i].id = node_id

RawLen(node_id) == IF InGraph(node_id) THEN segments[segment_id_to_index(node_id)].len ELSE 0

TargetStart(l) == parse_usize(l.f7)

TargetEnd(l) == parse_usize(l.f8)

\* a line of the coverage pass has been handed to for_each_step
LineDone == pc \in {"cover", "abort", "exit"} /\ line_no >= 1

\* ... and for_each_step returned from it
LineCompleted == LineDone /\ panic = ""

RECURSIVE SumLens(_)
SumLens(cs) == IF cs = <<>> THEN 0 ELSE Head(cs).len + SumLens(Tail(cs))

\* the step of the coverage pass that handles line l
CoverStepOn(l) == pc = "cover" /\ line_no < Len(gaf) /\ gaf[line_no + 1] = l /\ line_no' = line_no + 1

\* C1: on a line with a path of N >= 1 nodes that for_each_step completes,
\* the lengths handed to the node callback sum to target_end - target_start.
C1_SumIsTargetLen ==
    (LineCompleted /\ WellFormed(gaf[line_no]) /\ Len(gaf[line_no].path) >= 1)
        => SumLens(calls) = TargetEnd(gaf[line_no]) - TargetStart(gaf[line_no])

\* C2: a line whose path is `*` changes no coverage entry and raises no
\* error, weighted or not, whatever its fields 7 and 8 hold (or lack).
C2_StarLineSkipped ==
    [][\A l \in {gaf[i] : i \in DOMAIN gaf} :
          (CoverStepOn(l) /\ l.nf >= 6 /\ l.path = StarPath)
              => (coverage' = coverage /\ panic' = "" /\ pc' = "cover" /\ calls' = <<>>)]_vars

C2_StarAfterCredit ==
    /\ weight_queries
    /\ pc = "cover"
    /\ line_no = 2
    /\ gaf[2].path = StarPath
    /\ gaf[2].f7 = "x"
    /\ \E i \in DOMAIN coverage : coverage[i] # F64Zero

\* the lines of the whole file that share l's key
SameKeyLines(l) == {i \in DOMAIN gaf : gaf[i].nf >= 4 /\ query_key(gaf[i]) = query_key(l)}

\* what the node callbacks cs add to cov when each length is divided by n
RECURSIVE Credited(_, _, _)
Credited(cov, cs, n) ==
    IF cs = <<>> THEN cov
    ELSE Credited(
            [i \in DOMAIN cov |->
                IF segments[i].id = Head(cs).node_id
                THEN F64Add(cov[i], F64Div(F64FromUsize(Head(cs).len), F64FromUsize(n)))
                ELSE cov[i]],
            Tail(cs), n)

\* the file is k copies of one line, and the weighted pass has read them all
CopiesDone(k) ==
    /\ weight_queries
    /\ Len(gaf) = k
    /\ \A i \in DOMAIN gaf : gaf[i] = gaf[1]
    /\ pc = "cover"
    /\ line_no = k

IsPowerOfTwo(k) == \E e \in 0..UsizeBits : k = Pow2(e)

\* what one line of the file gives without weighting
UnweightedTotal == Credited([i \in DOMAIN segments |-> F64Zero], for_each_step(gaf[1]).calls, 1)

C4_AbsentNodeTolerated ==
    (/\ LineDone
     /\ WellFormed(gaf[line_no])
     /\ TargetStart(gaf[line_no]) <= TargetEnd(gaf[line_no])
     /\ Len(gaf[line_no].path) = 1
     /\ ~InGraph(NodeAt(gaf[line_no], 1)))
        => pc # "abort"

\* the failures C5 names: a token or an interval field that is no integer,
\* a target_start beyond the first node's length
FailingLine(l) ==
    /\ l.nf = 9
    /\ l.path # StarPath
    /\ \/ \E i \in DOMAIN l.path : ~IsUsize(l.path[i][2])
       \/ ~IsUsize(l.f7)
       \/ ~IsUsize(l.f8)
       \/ /\ l.path # <<>>
          /\ IsUsize(l.path[1][2])
          /\ IsUsize(l.f7)
          /\ RawLen(NodeAt(l, 1)) < TargetStart(l)

\* C5: a line that fails ends the run there: no step follows, nothing has
\* been or is printed; printing happens only once every line was handled
\* without a failure.
C5_FailFastNoOutput ==
    /\ [][\A l \in {gaf[i] : i \in DOMAIN gaf} :
            (CoverStepOn(l) /\ FailingLine(l)) => (pc' = "abort" /\ panic' # "")]_vars
    /\ [][pc # "abort"]_vars
    /\ [][stdout' # stdout => (pc = "cover" /\ line_no = Len(gaf) /\ panic = "")]_vars
    /\ [](pc = "abort" => stdout = NoOutput)
    /\ [](stdout # NoOutput => (pc = "exit" /\ line_no = Len(gaf) /\ panic = ""))

C5_AbortedBeforeLastLine ==
    /\ pc = "abort"
    /\ line_no = 1
    /\ Len(gaf) = 2
    /\ FailingLine(gaf[1])
    /\ stdout = NoOutput

\* C6: a line with target_end < target_start fails before any node callback:
\* the difference never wraps to a large length credited to a node.
C6_ReversedIntervalFails ==
    (/\ LineDone
     /\ WellFormed(gaf[line_no])
     /\ Len(gaf[line_no].path) >= 1
     /\ TargetEnd(gaf[line_no]) < TargetStart(gaf[line_no]))
        => (pc = "abort" /\ calls = <<>>)

\* the edge events C7 tells of, for a walk of N nodes
EdgeEvents(l) ==
    [i \in 1..(Len(l.path) - 1) |->
        IF l.path[i][1] = ">"
        THEN [fn |-> "on_edge", from |-> NodeAt(l, i), to |-> NodeAt(l, i + 1)]
        ELSE [fn |-> "on_edge", from |-> NodeAt(l, i + 1), to |-> NodeAt(l, i)]]

\* C7: a completed walk of N >= 2 nodes emits one directed-edge event for
\* each consecutive pair, directed by the orientation of the first of the two.
C7_OneEdgePerPair ==
    (LineCompleted /\ WellFormed(gaf[line_no]) /\ Len(gaf[line_no].path) >= 2)
        => SelectSeq(calls, LAMBDA c : c.fn = "on_edge") = EdgeEvents(gaf[line_no])

\* the length C8 attributes to position i of the walk of l
RECURSIVE Attributed(_, _)
RECURSIVE AttributedBefore(_, _)
Attributed(l, i) ==
    IF i = Len(l.path) THEN (TargetEnd(l) - TargetStart(l)) - AttributedBefore(l, i)
    ELSE IF i = 1 THEN RawLen(NodeAt(l, 1)) - TargetStart(l)
    ELSE RawLen(NodeAt(l, i))

AttributedBefore(l, i) == IF i = 1 THEN 0 ELSE AttributedBefore(l, i - 1) + Attributed(l, i - 1)

\* C8: a completed walk gets one node callback per position, in order: the
\* raw length less target_start at the first, the raw length inside, what is
\* left of target_end - target_start at the last (all of it when N = 1).
C8_PerPositionLengths ==
    (LineCompleted /\ WellFormed(gaf[line_no]) /\ Len(gaf[line_no].path) >= 1)
        => calls = [i \in DOMAIN gaf[line_no].path |->
                       Call(NodeAt(gaf[line_no], i), Attributed(gaf[line_no], i))]

\* C9: when the earlier positions already hold more than target_len, the
\* line does not fail: the last node gets 0 and the run goes on.
C9_NarrowTargetWidened ==
    (/\ LineDone
     /\ WellFormed(gaf[line_no])
     /\ Len(gaf[line_no].path) >= 2
     /\ TargetStart(gaf[line_no]) <= TargetEnd(gaf[line_no])
     /\ TargetStart(gaf[line_no]) <= RawLen(NodeAt(gaf[line_no], 1))
     /\ TargetEnd(gaf[line_no]) - TargetStart(gaf[line_no])
            < AttributedBefore(gaf[line_no], Len(gaf[line_no].path)))
        => (pc # "abort" /\ Len(calls) = Len(gaf[line_no].path) /\ calls[Len(calls)].len = 0)

\* a line whose first node is shorter than its target_start
StartsBeyondFirstNode(l) ==
    /\ l.nf = 9
    /\ l.path # StarPath
    /\ l.path # <<>>
    /\ IsUsize(l.path[1][2])
    /\ IsUsize(l.f7)
    /\ RawLen(NodeAt(l, 1)) < TargetStart(l)

\* C10: a line whose first node is shorter than target_start fails before
\* any node callback and changes no coverage entry; when the line is
\* otherwise well formed it fails on the first step's assertion.
C10_StartBeyondFirstNodeFails ==
    [][\A l \in {gaf[i] : i \in DOMAIN gaf} :
          (CoverStepOn(l) /\ StartsBeyondFirstNode(l))
              => /\ pc' = "abort"
                 /\ calls' = <<>>
                 /\ coverage' = coverage
                 /\ (WellFormed(l) /\ TargetStart(l) <= TargetEnd(l))
                        => panic' = "assertion failed: len >= target_start"]_vars

C10_AbortedOnFirstStep ==
    /\ pc = "abort"
    /\ panic = "assertion failed: len >= target_start"
    /\ line_no = 2
    /\ StartsBeyondFirstNode(gaf[2])
    /\ \E i \in DOMAIN coverage : coverage[i] # F64Zero

====
